---- MODULE Spec2Model ----
(***************************************************************************)
(* A model of the Netflix genre scraper (genrescrape.py, recover.py).      *)
(*                                                                         *)
(* Text is modelled as a sequence of indivisible chunks (a chunk is a      *)
(* TLA+ string: a word, a "/" or a blank), so that concatenation, strip,   *)
(* split, lower, endswith, str(int) and urljoin are computed and not       *)
(* assumed.  A URL is modelled by its path (the origin is fixed to         *)
(* Scraper.base_url; redirects to other origins are not modelled).         *)
(* Python's None is a value different from every text over the chunks.     *)
(***************************************************************************)
EXTENDS Integers, Sequences, FiniteSets, TLC

\* ------------------------------------------------------------------ bounds
\* Genre numbers scanned lie in 1 .. MaxGenre (max may be MaxGenre + 1).
MaxGenre == 2
\* How many times genre_scan is run in one behaviour.
MaxRuns == 2
\* How many events a document fed to the parsers has at most.
MaxEvents == 6

\* -------------------------------------------------------------------- text
None == <<"<None>">>

SP == " "
SL == "/"
NL == "\n"
\* The chunks str.strip() and str.split() take for whitespace.
Blank == {SP, NL}

\* str.lower() on one chunk.
LowerChunk(c) ==
    CASE c = "Login" -> "login"
      [] c = "LOGIN" -> "login"
      [] c = "Kids" -> "kids"
      [] c = "KIDS" -> "kids"
      [] c = "Adult" -> "adult"
      [] c = "Guest" -> "guest"
      [] OTHER -> c

\* str.lower()
Lower(s) == [i \in 1..Len(s) |-> LowerChunk(s[i])]

\* str.endswith(suffix)
EndsWith(s, suffix) ==
    /\ Len(suffix) <= Len(s)
    /\ SubSeq(s, Len(s) - Len(suffix) + 1, Len(s)) = suffix

\* str.strip(): drop the blanks at both ends.
RECURSIVE LStrip(_)
LStrip(s) == IF s # <<>> /\ Head(s) \in Blank THEN LStrip(Tail(s)) ELSE s

RECURSIVE RStrip(_)
RStrip(s) ==
    IF s # <<>> /\ s[Len(s)] \in Blank THEN RStrip(SubSeq(s, 1, Len(s) - 1)) ELSE s

Strip(s) == RStrip(LStrip(s))

\* str.split(): the maximal blank-free pieces, in order.
RECURSIVE SplitFrom(_, _, _)
SplitFrom(s, cur, acc) ==
    IF s = <<>> THEN (IF cur = <<>> THEN acc ELSE Append(acc, cur))
    ELSE IF Head(s) \in Blank
         THEN SplitFrom(Tail(s), <<>>, IF cur = <<>> THEN acc ELSE Append(acc, cur))
         ELSE SplitFrom(Tail(s), Append(cur, Head(s)), acc)

Split(s) == SplitFrom(s, <<>>, <<>>)

\* x in list
InSeq(x, list) == \E i \in 1..Len(list) : list[i] = x

\* str(number) for a non-negative integer, one chunk per decimal digit.
DigitChunk(d) ==
    CASE d = 0 -> "0" [] d = 1 -> "1" [] d = 2 -> "2" [] d = 3 -> "3"
      [] d = 4 -> "4" [] d = 5 -> "5" [] d = 6 -> "6" [] d = 7 -> "7"
      [] d = 8 -> "8" [] d = 9 -> "9"

RECURSIVE StrOfInt(_)
StrOfInt(n) ==
    IF n < 10 THEN <<DigitChunk(n)>>
    ELSE Append(StrOfInt(n \div 10), DigitChunk(n % 10))

\* ---------------------------------------------------------------- URLs
base_url == <<SL>>
login_path == <<SL, "login">>

\* The index of the last "/" of a path (0 when it has none).
RECURSIVE LastSlash(_)
LastSlash(s) ==
    IF s = <<>> THEN 0
    ELSE IF s[Len(s)] = SL THEN Len(s) ELSE LastSlash(SubSeq(s, 1, Len(s) - 1))

\* urllib.parse.urljoin(base, ref) on paths of one origin: an absolute ref
\* replaces the path, a relative one replaces what follows the last "/".
urljoin(base, ref) ==
    IF ref = <<>> THEN base
    ELSE IF Head(ref) = SL THEN ref
    ELSE SubSeq(base, 1, LastSlash(base)) \o ref

\* A slip: the path compared as it is, not lowered.
is_login_CaseSensitive(url) == EndsWith(url, login_path)

\* Scraper.is_login
is_login(url) == EndsWith(Lower(url), Lower(login_path))

\* '/browse/genre/{}'.format(number)
GenrePath(number) == <<SL, "browse", SL, "genre", SL>> \o StrOfInt(number)

\* ------------------------------------------------------- HTML event streams
\* HTMLParser calls handle_starttag(tag, attrs), handle_endtag(tag) and
\* handle_data(data); attrs is a list of (name, value), value None for a
\* bare attribute.
Start(tag, attrs) == [type |-> "start", tag |-> tag, attrs |-> attrs, data |-> <<>>]
End(tag) == [type |-> "end", tag |-> tag, attrs |-> <<>>, data |-> <<>>]
Data(d) == [type |-> "data", tag |-> "", attrs |-> <<>>, data |-> d]

\* name in dict(attrs)
HasKey(attrs, name) == \E i \in 1..Len(attrs) : attrs[i][1] = name

\* dict(attrs).get(name, default): the last pair of that name wins.
RECURSIVE DictGet(_, _, _)
DictGet(attrs, name, default) ==
    IF attrs = <<>> THEN default
    ELSE IF attrs[Len(attrs)][1] = name THEN attrs[Len(attrs)][2]
    ELSE DictGet(SubSeq(attrs, 1, Len(attrs) - 1), name, default)

\* d[name] = value on a dict kept as a list of pairs in insertion order.
DictSet(d, name, value) ==
    IF HasKey(d, name)
    THEN [i \in 1..Len(d) |-> IF d[i][1] = name THEN <<name, value>> ELSE d[i]]
    ELSE Append(d, <<name, value>>)

\* ------------------------------------------------------------- FormParser
\* A key of FormParser.form_data: the form's id attribute, or the number of
\* forms seen so far.
FormKeyId(id) == [isId |-> TRUE, id |-> id, n |-> 0]
FormKeyLen(n) == [isId |-> FALSE, id |-> <<>>, n |-> n]

\* FormParser.reset
FormReset == [form_data |-> <<>>, open |-> FALSE, current |-> FormKeyLen(0)]

FormIndex(form_data, key) ==
    IF \E i \in 1..Len(form_data) : form_data[i].key = key
    THEN CHOOSE i \in 1..Len(form_data) : form_data[i].key = key
    ELSE 0

\* self.form_data[key] = entry
FormPut(form_data, key, entry) ==
    IF FormIndex(form_data, key) = 0 THEN Append(form_data, entry)
    ELSE [form_data EXCEPT ![FormIndex(form_data, key)] = entry]

\* FormParser.handle_starttag
FormStartTag(st, tag, attrs) ==
    LET key == IF HasKey(attrs, "id") THEN FormKeyId(DictGet(attrs, "id", None))
               ELSE FormKeyLen(Len(st.form_data))
        st1 == IF tag = "form"
               THEN [form_data |-> FormPut(st.form_data, key,
                                     [key |-> key, attrs |-> attrs, fields |-> <<>>]),
                     \* "_current_form is not None" fails for a bare id attribute
                     open |-> (key # FormKeyId(None)),
                     current |-> key]
               ELSE st
        i == FormIndex(st1.form_data, st1.current)
    IN  IF st1.open /\ HasKey(attrs, "name")
        THEN [st1 EXCEPT !.form_data[i].fields =
                 DictSet(@, DictGet(attrs, "name", None), DictGet(attrs, "value", None))]
        ELSE st1

\* A slip: the close tag of a form not handled.
FormEndTag_Ignored(st, tag) == st

\* FormParser.handle_endtag
FormEndTag(st, tag) == IF tag = "form" THEN [st EXCEPT !.open = FALSE] ELSE st

RECURSIVE FormFeed(_, _)
FormFeed(st, events) ==
    IF events = <<>> THEN st
    ELSE LET e == Head(events)
         IN  FormFeed(CASE e.type = "start" -> FormStartTag(st, e.tag, e.attrs)
                        [] e.type = "end" -> FormEndTag(st, e.tag)
                        [] OTHER -> st,
                      Tail(events))

\* FormParser().feed(text); .form_data
FormParse(events) == FormFeed(FormReset, events).form_data

\* ------------------------------------------------------ ProfileListParser
\* if x: for x a string or None
Truthy(x) == x # None /\ x # <<>>

\* ProfileListParser.reset (raised: "" or the exception feed ended with)
ProfileReset == [profiles |-> <<>>, link |-> None, name |-> <<>>, raised |-> ""]

\* ProfileListParser.handle_starttag
ProfileStartTag(st, tag, attrs) ==
    IF tag # "a" THEN st
    ELSE IF DictGet(attrs, "class", <<>>) = None
         THEN [st EXCEPT !.raised = "AttributeError"]          \* None.split()
    ELSE IF ~InSeq(<<"profile-link">>, Split(DictGet(attrs, "class", <<>>))) THEN st
    ELSE IF ~HasKey(attrs, "href")
         THEN [st EXCEPT !.raised = "KeyError"]                \* attrs['href']
    ELSE [st EXCEPT !.link = DictGet(attrs, "href", None)]

\* ProfileListParser.handle_endtag
ProfileEndTag(st, tag) ==
    IF tag = "a" /\ Truthy(st.link)
    THEN [st EXCEPT !.profiles = Append(@, <<Strip(st.name), st.link>>),
                    !.link = None, !.name = <<>>]
    ELSE st

\* ProfileListParser.handle_data
ProfileData(st, data) ==
    IF Truthy(st.link) THEN [st EXCEPT !.name = @ \o data] ELSE st

RECURSIVE ProfileFeed(_, _)
ProfileFeed(st, events) ==
    IF events = <<>> \/ st.raised # "" THEN st
    ELSE LET e == Head(events)
         IN  ProfileFeed(CASE e.type = "start" -> ProfileStartTag(st, e.tag, e.attrs)
                           [] e.type = "end" -> ProfileEndTag(st, e.tag)
                           [] OTHER -> ProfileData(st, e.data),
                         Tail(events))

\* ProfileListParser().feed(text): [profiles, raised]
ProfileParse(events) == ProfileFeed(ProfileReset, events)

\* ----------------------------------------------------------- CaptureParser
\* ErrorMessageParser.criteria / TitleParser.criteria:
\* cls in attrs.get('class', '').split(); "raise" when the value is None.
Criteria(cls, attrs) ==
    IF DictGet(attrs, "class", <<>>) = None THEN "raise"
    ELSE IF InSeq(<<cls>>, Split(DictGet(attrs, "class", <<>>))) THEN "yes"
    ELSE "no"

\* CaptureParser.reset
CaptureReset == [strings |-> <<>>, current |-> <<>>, inside |-> 0, raised |-> ""]

\* CaptureParser.handle_starttag
CaptureStartTag(st, cls, attrs) ==
    IF st.inside > 0 THEN [st EXCEPT !.inside = @ + 1]
    ELSE CASE Criteria(cls, attrs) = "raise" -> [st EXCEPT !.raised = "AttributeError"]
           [] Criteria(cls, attrs) = "yes" -> [st EXCEPT !.inside = @ + 1]
           [] OTHER -> st

\* CaptureParser.handle_endtag
CaptureEndTag(st) ==
    IF st.inside > 1 THEN [st EXCEPT !.inside = @ - 1]
    ELSE IF st.inside = 1
         THEN [st EXCEPT !.inside = 0, !.strings = Append(@, st.current),
                         !.current = <<>>]
    ELSE st

\* CaptureParser.handle_data
CaptureData(st, data) ==
    IF st.inside > 0 THEN [st EXCEPT !.current = @ \o data] ELSE st

RECURSIVE CaptureFeed(_, _, _)
CaptureFeed(st, cls, events) ==
    IF events = <<>> \/ st.raised # "" THEN st
    ELSE LET e == Head(events)
         IN  CaptureFeed(CASE e.type = "start" -> CaptureStartTag(st, cls, e.attrs)
                           [] e.type = "end" -> CaptureEndTag(st)
                           [] OTHER -> CaptureData(st, e.data),
                         cls, Tail(events))

\* ErrorMessageParser().feed(text): [strings, raised]
ErrorParse(events) == CaptureFeed(CaptureReset, "ui-message-error", events)

\* TitleParser().feed(text): [strings, raised]
TitleParse(events) == CaptureFeed(CaptureReset, "genreTitle", events)

\* ------------------------------------------------------------------ pages
\* What the remote site may answer with: a response is its final URL and its
\* body as the event stream the HTML tokenizer makes of it.
Response(url, text) == [url |-> url, text |-> text]
NoResponse == Response(<<>>, <<>>)

Class(c) == <<"class", c>>

JsWarning ==
    << Start("div", <<Class(<<"ui-message-error">>)>>), Data(<<"JS disabled">>), End("div") >>

LoginForm ==
    << Start("form", << <<"id", <<"login-form">>>>, <<"method", <<"post">>>>,
                        <<"action", <<"Login">>>> >>),
       Start("input", << <<"name", <<"email">>>>, <<"value", <<>>>> >>),
       Start("input", << <<"name", <<"password">>>> >>),
       Start("input", << <<"name", <<"action">>>>, <<"value", <<"loginAction">>>> >>),
       End("form") >>

\* A genre page: two title elements, the first with nested markup.
PageComedy ==
    Response(<<SL, "browse", SL, "genre", SL, "1">>,
      << Start("div", <<Class(<<"title", SP, "genreTitle">>)>>),
         Start("span", <<>>), Data(<<"Com">>), End("span"), Data(<<"edy">>), End("div"),
         Start("h2", <<Class(<<"genreTitle">>)>>), Data(<<"Drama">>), End("h2") >>)

\* A genre page whose only title element is empty.
PageEmptyTitle ==
    Response(<<SL, "browse", SL, "genre", SL, "2">>,
      << Start("div", <<Class(<<"genreTitle">>)>>), End("div") >>)

\* A page with no title element (an unknown genre number lands on /browse).
PageNoTitle ==
    Response(<<SL, "browse">>,
      << Start("div", <<Class(<<"lolomo">>)>>), Data(<<"Home">>), End("div") >>)

\* A page with a bare class attribute: <div class>.
PageBareClass ==
    Response(<<SL, "browse", SL, "genre", SL, "3">>,
      << Start("div", <<Class(None)>>), Data(<<"Home">>), End("div") >>)

\* The login page, as first served: the script warning and the login form.
PageLogin == Response(<<SL, "Login">>, JsWarning \o LoginForm)

\* The login page after a rejected submission: a second error message.
PageLoginError ==
    Response(<<SL, "login">>,
      JsWarning
      \o << Start("div", <<Class(<<"ui-message-error">>)>>),
            Data(<<"Incorrect password">>), End("div") >>
      \o LoginForm)

\* A page at the login path with no login form (only a search form).
PageLoginNoForm ==
    Response(<<SL, "login">>,
      << Start("form", << <<"method", <<"get">>>>, <<"action", <<SL, "search">>>> >>),
         Start("input", << <<"name", <<"q">>>> >>), End("form") >>)

ProfileLink(href, name) ==
    << Start("a", << Class(<<"profile-link">>), <<"href", href>> >>),
       Data(<<SP>>), Data(name), Data(<<SP>>), End("a") >>

\* The "Who's Watching" page.
PageProfiles ==
    Response(<<SL, "browse">>,
      ProfileLink(<<SL, "p", SL, "adult">>, <<"Adult">>)
      \o ProfileLink(<<"p", SL, "kids">>, <<"Kids">>)
      \o ProfileLink(<<SL, "p", SL, "kids2">>, <<"kids">>))

\* A "Who's Watching" page without the profile Kids.
PageProfilesNoKids ==
    Response(<<SL, "profiles", SL, "gate">>,
      ProfileLink(<<SL, "p", SL, "adult">>, <<"Adult">>)
      \o ProfileLink(<<"guest">>, <<"Guest">>))

Pages ==
    { PageComedy, PageEmptyTitle, PageNoTitle, PageBareClass, PageLogin,
      PageLoginError, PageLoginNoForm, PageProfiles, PageProfilesNoKids }

\* Scraper.auth and the values of Scraper.profile tried.
auth == << <<"user@example.org">>, <<"secret">> >>
Profiles == { None, <<"KIDS">> }

\* --------------------------------------------------------- Scraper.get
Request(method, url, data) == [method |-> method, url |-> url, data |-> data]
NoRequest == Request(<<>>, <<>>, <<>>)

\* The outcome of a call: it returned `response`, or raised `exc`.
NoResult ==
    [kind |-> "none", response |-> NoResponse, exc |-> "", msg |-> <<>>,
     who |-> <<>>, names |-> <<>>]
Returned(response) == [NoResult EXCEPT !.kind = "return", !.response = response]
Raised(exc) == [NoResult EXCEPT !.kind = "raise", !.exc = exc]
\* A step of get that goes on with an HTTP request.
Requests(request) == [kind |-> "request", request |-> request]

\* The forms of forms.values() from index i on: the first login form, or 0.
RECURSIVE LoginFormIndex(_, _)
LoginFormIndex(forms, i) ==
    IF i > Len(forms) THEN 0
    ELSE IF DictGet(forms[i].fields, <<"action">>, None) = <<"loginAction">> THEN i
    ELSE LoginFormIndex(forms, i + 1)

\* Scraper.login_if_required up to its request (lines 161-175): the response
\* passed through, the login form's submission, an exception, or
\* "none" when the loop ends without a login form (the function returns None).
LoginRequired(response) ==
    IF ~is_login(response.url) THEN Returned(response)
    ELSE LET forms == FormParse(response.text)
             i == LoginFormIndex(forms, 1)
         IN  IF i = 0 THEN [NoResult EXCEPT !.kind = "none"]
             ELSE IF ~HasKey(forms[i].attrs, "action") \/ ~HasKey(forms[i].attrs, "method")
                  THEN Raised("KeyError")
             ELSE Requests(Request(
                      DictGet(forms[i].attrs, "method", None),
                      urljoin(response.url, DictGet(forms[i].attrs, "action", None)),
                      DictSet(DictSet(forms[i].fields, <<"email">>, auth[1]),
                              <<"password">>, auth[2])))

\* Scraper.login_if_required after its request (lines 176-183).
LoginSubmitted(response) ==
    IF is_login(response.url)
    THEN LET errors == ErrorParse(response.text)
         IN  IF errors.raised # "" THEN Raised(errors.raised)
             ELSE IF Len(errors.strings) < 2 THEN Raised("IndexError")
             ELSE [Raised("RuntimeError") EXCEPT !.msg = errors.strings[2]]
    ELSE Returned(response)

\* A slip: the names compared as they are, not lowered.
RECURSIVE ProfileIndex_CaseSensitive(_, _, _)
ProfileIndex_CaseSensitive(profiles, profile, i) ==
    IF i > Len(profiles) THEN 0
    ELSE IF profile = None \/ profiles[i][1] = profile THEN i
    ELSE ProfileIndex_CaseSensitive(profiles, profile, i + 1)

\* The index of the entry the loop of choose_profile_if_required breaks at
\* (lines 191-198), or 0.
RECURSIVE ProfileIndex(_, _, _)
ProfileIndex(profiles, profile, i) ==
    IF i > Len(profiles) THEN 0
    ELSE IF profile = None \/ Lower(profiles[i][1]) = Lower(profile) THEN i
    ELSE ProfileIndex(profiles, profile, i + 1)

\* A slip: the for loop without its else branch, so that a profile that is
\* not found passes the response through.
ChooseProfile_NoElse(response, profile) ==
    LET parsed == ProfileParse(response.text)
        i == ProfileIndex(parsed.profiles, profile, 1)
    IN  IF parsed.raised # "" THEN Raised(parsed.raised)
        ELSE IF i # 0
             THEN Requests(Request(<<"GET">>, urljoin(response.url, parsed.profiles[i][2]), <<>>))
        ELSE Returned(response)

\* Scraper.choose_profile_if_required up to its request (lines 185-201).
ChooseProfile(response, profile) ==
    LET parsed == ProfileParse(response.text)
        i == ProfileIndex(parsed.profiles, profile, 1)
    IN  IF parsed.raised # "" THEN Raised(parsed.raised)
        ELSE IF i # 0
             THEN Requests(Request(<<"GET">>, urljoin(response.url, parsed.profiles[i][2]), <<>>))
        ELSE IF parsed.profiles # <<>>
             THEN [Raised("ValueError") EXCEPT
                      !.who = profile,
                      !.names = [k \in 1..Len(parsed.profiles) |-> parsed.profiles[k][1]]]
        ELSE Returned(response)

\* choose_profile_if_required(login_if_required(response)) once login
\* resolution is over with outcome `login` (lines 210-214).
AfterLogin(login, profile) ==
    CASE login.kind = "raise" -> login
      [] login.kind = "none" -> Raised("AttributeError")      \* None.text
      [] OTHER -> ChooseProfile(login.response, profile)

\* No request of the call has been answered yet.
NoAnswer == [stage |-> "none", ok |-> FALSE, exc |-> "", response |-> NoResponse]

\* ------------------------------------------------------------------ state
VARIABLES
    profile,    \* Scraper.profile
    cache,      \* the shelf .genrecache: cache key -> None or (title, url)
    cacheOpen,  \* the shelf is open (inside the with block of genre_scan)
    pc,         \* "idle", or where the running call stands: "loop" (head of the
                \* for loop), "get" (inside self.get), "yield" (suspended at a yield)
    caller,     \* who called get: "login" or "scan"
    smin, smax, \* the range [min, max) every genre_scan of the behaviour is given
    fresh,      \* the argument fresh of the running genre_scan
    number,     \* the loop variable of genre_scan
    out,        \* what the running genre_scan has yielded so far
    gpc,        \* get: "idle", the request awaited ("GET", "POST", "PGET"), or "ret"
    gnext,      \* get: the request awaited
    greq,       \* get: the requests issued by this call so far
    gres,       \* get: its outcome, once gpc = "ret"
    glast,      \* get: the request answered last and the site's answer to it
    runs,       \* how many times genre_scan was started
    prev,       \* the previous run of genre_scan, once it ended
    fetched,    \* the numbers whose genre page the running scan asked get for
    failed,     \* some get of the running scan raised
    mpc,        \* which program runs and where it stands: "lib" (the Scraper
                \* used as a library), main of genrescrape ("start", "login",
                \* "scan", "interrupted", "done", "aborted"), "recover", "parse"
    report,     \* what main printed on stdout
    rpos,       \* recover_cache: the lines of from_file read so far
    rcount,     \* recover_cache: count
    doc,        \* the events the HTML parsers were fed so far
    fst,        \* the state of a FormParser fed doc
    pst,        \* the state of a ProfileListParser fed doc
    cst         \* the state of a TitleParser fed doc

vars == << profile, cache, cacheOpen, pc, caller, smin, smax, fresh, number, out,
           gpc, gnext, greq, gres, glast, runs, prev, fetched, failed,
           mpc, report, rpos, rcount, doc, fst, pst, cst >>

toolVars == << mpc, report, rpos, rcount >>
parseVars == << doc, fst, pst, cst >>

getVars == << gpc, gnext, greq, gres, glast >>
scanVars == << smin, smax, fresh, number, out, fetched, failed >>

Numbers == 1..MaxGenre

\* cache_key = str(number)
CacheKey(n) == StrOfInt(n)

\* A cached (title, url), as recover.py or an earlier scan left it.
OldEntry == << <<"Drama">>, <<SL, "browse", SL, "genre", SL, "9">> >>

Keys == { CacheKey(n) : n \in Numbers }
EmptyCache == [k \in {} |-> None]

NoRun == [status |-> "none", fresh |-> FALSE, out |-> <<>>, failed |-> FALSE]

\* The state a program starts in; m says which program.
InitState(m) ==
    /\ profile \in Profiles
    /\ \E D \in SUBSET Keys : cache \in [D -> {None, OldEntry}]
    /\ cacheOpen = FALSE
    /\ pc = "idle"
    /\ caller = "none"
    /\ smin \in Numbers /\ smax \in 1..(MaxGenre + 1)
    /\ fresh = FALSE
    /\ number = 0
    /\ out = <<>>
    /\ gpc = "idle" /\ gnext = NoRequest /\ greq = <<>> /\ gres = NoResult
    /\ glast = NoAnswer
    /\ runs = 0
    /\ prev = NoRun
    /\ fetched = <<>>
    /\ failed = FALSE
    /\ mpc = m /\ report = <<>> /\ rpos = 0 /\ rcount = 0
    /\ doc = <<>> /\ fst = FormReset /\ pst = ProfileReset /\ cst = CaptureReset

\* A program using the Scraper as a library.
Init == InitState("lib")

\* ------------------------------------------------------------ get, stepwise
\* What the site does with a request: a network error, a non-success status
\* (raise_for_status raises), or any page.
Outcomes ==
    { [ok |-> FALSE, exc |-> e, response |-> NoResponse] : e \in {"ConnectionError", "HTTPError"} }
    \cup { [ok |-> TRUE, exc |-> "", response |-> r] : r \in Pages }

\* The entry of get (lines 207-208): the GET of urljoin(base_url, path) is awaited.
GetCall(path) ==
    /\ gpc' = "GET"
    /\ gnext' = Request(<<"GET">>, urljoin(base_url, path), <<>>)
    /\ greq' = <<>>
    /\ gres' = NoResult
    /\ glast' = NoAnswer

\* A slip: a request that failed sent again.
GetGoesOn_Retry(o, step, stage) ==
    /\ greq' = Append(greq, gnext)
    /\ glast' = [stage |-> gpc, ok |-> o.ok, exc |-> o.exc, response |-> o.response]
    /\ IF ~o.ok
       THEN gpc' = gpc /\ gnext' = gnext /\ gres' = NoResult
       ELSE IF step.kind = "request"
            THEN gpc' = stage /\ gnext' = step.request /\ gres' = NoResult
            ELSE gpc' = "ret" /\ gnext' = NoRequest /\ gres' = step

\* The site answered the awaited request with `o`; get goes on with what `step`
\* says: a further request at `stage`, or its end.
GetGoesOn(o, step, stage) ==
    /\ greq' = Append(greq, gnext)
    /\ glast' = [stage |-> gpc, ok |-> o.ok, exc |-> o.exc, response |-> o.response]
    /\ IF step.kind = "request"
       THEN gpc' = stage /\ gnext' = step.request /\ gres' = NoResult
       ELSE gpc' = "ret" /\ gnext' = NoRequest /\ gres' = step

\* What get does with the answer to its first GET (lines 208-214).
InitialStep(o, p) ==
    IF ~o.ok THEN Raised(o.exc)
    ELSE IF LoginRequired(o.response).kind = "request" THEN LoginRequired(o.response)
    ELSE AfterLogin(LoginRequired(o.response), p)

\* What get does with the answer to the login submission (lines 175-183, 210).
SubmitStep(o, p) ==
    IF ~o.ok THEN Raised(o.exc) ELSE AfterLogin(LoginSubmitted(o.response), p)

\* What get does with the answer to the profile GET (lines 196-203).
ProfileStep(o) == IF ~o.ok THEN Raised(o.exc) ELSE Returned(o.response)

\* The site answers the GET of the requested path.
GetInitial ==
    /\ gpc = "GET"
    /\ \E o \in Outcomes :
          GetGoesOn(o, InitialStep(o, profile),
                    IF o.ok /\ LoginRequired(o.response).kind = "request"
                    THEN "POST" ELSE "PGET")
    /\ UNCHANGED << profile, cache, cacheOpen, pc, caller, runs, prev >>
    /\ UNCHANGED scanVars
    /\ UNCHANGED << toolVars, parseVars >>

\* The site answers the submission of the login form.
LoginSubmit ==
    /\ gpc = "POST"
    /\ \E o \in Outcomes : GetGoesOn(o, SubmitStep(o, profile), "PGET")
    /\ UNCHANGED << profile, cache, cacheOpen, pc, caller, runs, prev >>
    /\ UNCHANGED scanVars
    /\ UNCHANGED << toolVars, parseVars >>

\* The site answers the GET of the chosen profile's link.
ProfileGet ==
    /\ gpc = "PGET"
    /\ \E o \in Outcomes : GetGoesOn(o, ProfileStep(o), "none")
    /\ UNCHANGED << profile, cache, cacheOpen, pc, caller, runs, prev >>
    /\ UNCHANGED scanVars
    /\ UNCHANGED << toolVars, parseVars >>

GetDone ==
    /\ gpc' = "idle" /\ gnext' = NoRequest /\ greq' = <<>> /\ gres' = NoResult
    /\ glast' = NoAnswer

\* -------------------------------------------------------------- login
\* Scraper.login: get(login_path); main calls it before any scan (line 293).
Login ==
    /\ mpc = "lib"
    /\ pc = "idle" /\ runs = 0
    /\ pc' = "get" /\ caller' = "login"
    /\ GetCall(login_path)
    /\ UNCHANGED << profile, cache, cacheOpen, runs, prev >>
    /\ UNCHANGED scanVars
    /\ UNCHANGED << toolVars, parseVars >>

\* login returns or raises to its caller.
LoginEnd ==
    /\ mpc = "lib"
    /\ pc = "get" /\ caller = "login" /\ gpc = "ret"
    /\ pc' = "idle" /\ caller' = "none"
    /\ GetDone
    /\ UNCHANGED << profile, cache, cacheOpen, runs, prev >>
    /\ UNCHANGED scanVars
    /\ UNCHANGED << toolVars, parseVars >>

\* ------------------------------------------------------ main: the report
\* print(s): the text and a line break on stdout
PrintLine(stdout, s) == stdout \o s \o <<NL>>

\* '# Genres {}-{}'.format(ns.min, ns.max); the chunk "--" is the en dash
Header(min, max) ==
    <<"#", SP, "Genres", SP>> \o StrOfInt(min) \o <<"--">> \o StrOfInt(max)

\* '* {} ([#{}]({}))'.format(name, number, url)
GenreLine(n, name, url) ==
    <<"*", SP>> \o name \o <<SP, "(", "[", "#">> \o StrOfInt(n)
    \o <<"]", "(">> \o url \o <<")", ")">>

\* '_Generated on {:%B %d %Y %H:%M:%S %Z}_'.format(started)
Stamp == <<"_", "Generated", SP, "on", SP, "November", SP, "02", SP, "2026", "_">>

\* The header and the blank line (lines 296-297).
ReportHead(stdout, min, max) == PrintLine(PrintLine(stdout, Header(min, max)), <<>>)

\* The blank line and the timestamp of the finally clause (lines 305-306).
ReportFoot(stdout) == PrintLine(PrintLine(stdout, <<>>), Stamp)

\* The body of the for loop of main (line 300) run on results[i..].
RECURSIVE ReportLines(_, _, _)
ReportLines(stdout, results, i) ==
    IF i > Len(results) THEN stdout
    ELSE ReportLines(PrintLine(stdout, GenreLine(results[i][1], results[i][2], results[i][3])),
                     results, i + 1)

\* main has printed the line of every result the scan has yielded.
Printed == report = ReportLines(ReportHead(<<>>, smin, smax), out, 1)

\* ---------------------------------------------------------- genre_scan
\* A slip: the range taken to include max.
RangeOver_Inclusive(n, max) == n > max

\* range(min, max) is over at n
RangeOver(n, max) == n >= max

\* the for loop's next number
NextNumber(n) == n + 1

\* A slip: the shelf looked up under the integer, which always raises.
Cached_IntKey(c, n) == FALSE

\* genre_cache[cache_key] succeeds
Cached(c, n) == CacheKey(n) \in DOMAIN c

\* A slip: the shelf replaced by the entry written.
CachePut_Only(c, key, value) == [k \in {key} |-> value]

\* genre_cache[key] = value
CachePut(c, key, value) ==
    [k \in DOMAIN c \cup {key} |-> IF k = key THEN value ELSE c[k]]

\* A slip: the shelf never cleared.
Opened_NoClear(c, fr) == c

\* genre_cache.clear() when fresh (lines 234-235)
Opened(c, fr) == IF fr THEN EmptyCache ELSE c

\* (number,) + value
Result(n, value) == <<n>> \o value

\* A slip: the shelf opened without the with statement.
Released_NoWith(open) == open

\* The with block of genre_scan is left (line 233): the shelf is closed.
Released(open) == FALSE

\* What the run leaves behind when the generator ends.
RunEnds(status) ==
    /\ pc' = "idle" /\ caller' = "none"
    /\ cacheOpen' = Released(cacheOpen)
    /\ prev' = [status |-> status, fresh |-> fresh, out |-> out, failed |-> failed]

\* The first next() on genre_scan(min, max, fresh): the shelf is opened and,
\* when fresh, cleared (lines 233-237).
ScanStart ==
    /\ pc = "idle"
    /\ (mpc = "lib" /\ runs < MaxRuns) \/ (mpc = "scan" /\ runs = 0)
    /\ \E fr \in BOOLEAN :
          /\ fresh' = fr
          /\ cache' = Opened(cache, fr)
    /\ number' = smin
    /\ cacheOpen' = TRUE
    /\ runs' = runs + 1
    /\ pc' = "loop" /\ caller' = "scan"
    /\ out' = <<>> /\ fetched' = <<>> /\ failed' = FALSE
    /\ UNCHANGED << profile, prev, smin, smax >>
    /\ UNCHANGED getVars
    /\ UNCHANGED << toolVars, parseVars >>

\* The range is exhausted: the with block is left and the generator ends.
ScanEnd ==
    /\ pc = "loop" /\ RangeOver(number, smax)
    /\ RunEnds("done")
    /\ UNCHANGED << profile, cache, runs >>
    /\ UNCHANGED scanVars
    /\ UNCHANGED getVars
    /\ UNCHANGED << toolVars, parseVars >>

\* The key is in the cache (lines 262-266).
ScanHit ==
    /\ pc = "loop" /\ ~RangeOver(number, smax) /\ Cached(cache, number)
    /\ IF Truthy(cache[CacheKey(number)])
       THEN /\ out' = Append(out, Result(number, cache[CacheKey(number)]))
            /\ pc' = "yield"
            /\ number' = number
       ELSE /\ out' = out
            /\ pc' = "loop"
            /\ number' = NextNumber(number)
    /\ UNCHANGED << profile, cache, cacheOpen, caller, runs, prev >>
    /\ UNCHANGED << smin, smax, fresh, fetched, failed >>
    /\ UNCHANGED getVars
    /\ UNCHANGED << toolVars, parseVars >>

\* The key is not in the cache: get is called (lines 241-247).
ScanMiss ==
    /\ pc = "loop" /\ ~RangeOver(number, smax) /\ ~Cached(cache, number)
    /\ pc' = "get"
    /\ fetched' = Append(fetched, number)
    /\ GetCall(GenrePath(number))
    /\ UNCHANGED << profile, cache, cacheOpen, caller, runs, prev >>
    /\ UNCHANGED << smin, smax, fresh, number, out, failed >>
    /\ UNCHANGED << toolVars, parseVars >>

\* A slip: only the HTTP library's errors caught.
Caught_RequestsOnly(exc) == exc \in { "ConnectionError", "HTTPError" }

\* except Exception (line 248): every exception get can raise is one.
Caught(exc) ==
    exc \in { "ConnectionError", "HTTPError", "RuntimeError", "ValueError",
              "IndexError", "KeyError", "AttributeError" }

\* get raised: the number is skipped (lines 248-250).
ScanSkip ==
    /\ pc = "get" /\ caller = "scan" /\ gpc = "ret" /\ gres.kind = "raise"
    /\ failed' = TRUE
    /\ IF Caught(gres.exc)
       THEN /\ number' = NextNumber(number)
            /\ pc' = "loop"
            /\ UNCHANGED << cacheOpen, caller, prev >>
       ELSE /\ RunEnds("raised")
            /\ number' = number
    /\ GetDone
    /\ UNCHANGED << profile, cache, runs >>
    /\ UNCHANGED << smin, smax, fresh, out, fetched >>
    /\ UNCHANGED << toolVars, parseVars >>

\* A slip: a title wanted to be non-empty.
HasTitle_NonEmpty(strings) == \E i \in 1..Len(strings) : strings[i] # <<>>

\* len(title_parser.strings) > 0 (line 255)
HasTitle(strings) == Len(strings) > 0

\* title = title_parser.strings[0] (line 256)
Title(strings) == strings[1]

\* A slip: the absent marker stored whatever was found.
Entry_Absent(strings, url) == None

\* What is stored under the key (lines 258, 261).
Entry(strings, url) == IF HasTitle(strings) THEN <<Title(strings), url>> ELSE None

\* get returned: the title is parsed, the outcome cached, a title yielded
\* (lines 252-261).  An exception of the title parser leaves the generator.
ScanTitle ==
    /\ pc = "get" /\ caller = "scan" /\ gpc = "ret" /\ gres.kind = "return"
    /\ LET parsed == TitleParse(gres.response.text)
           entry == Entry(parsed.strings, gres.response.url)
       IN  IF parsed.raised # ""
           THEN /\ RunEnds("raised")
                /\ UNCHANGED << cache, number, out >>
           ELSE /\ cache' = CachePut(cache, CacheKey(number), entry)
                /\ IF HasTitle(parsed.strings)
                   THEN /\ out' = Append(out, Result(number, entry))
                        /\ pc' = "yield"
                        /\ number' = number
                   ELSE /\ out' = out
                        /\ pc' = "loop"
                        /\ number' = NextNumber(number)
                /\ UNCHANGED << cacheOpen, caller, prev >>
    /\ GetDone
    /\ UNCHANGED << profile, runs >>
    /\ UNCHANGED << smin, smax, fresh, fetched, failed >>
    /\ UNCHANGED << toolVars, parseVars >>

\* The consumer asks for the next result: the loop goes on after the yield.
ScanResume ==
    /\ pc = "yield"
    /\ mpc = "lib" \/ (mpc = "scan" /\ Printed)
    /\ number' = NextNumber(number)
    /\ pc' = "loop"
    /\ UNCHANGED << profile, cache, cacheOpen, caller, runs, prev >>
    /\ UNCHANGED << smin, smax, fresh, out, fetched, failed >>
    /\ UNCHANGED getVars
    /\ UNCHANGED << toolVars, parseVars >>

Next ==
    \/ Login
    \/ LoginEnd
    \/ GetInitial
    \/ LoginSubmit
    \/ ProfileGet
    \/ ScanStart
    \/ ScanEnd
    \/ ScanHit
    \/ ScanMiss
    \/ ScanSkip
    \/ ScanTitle
    \/ ScanResume

Spec == Init /\ [][Next]_vars

\* ------------------------------------------------------- main (genrescrape)
\* The scan is under way (between its first next() and its end).
Scanning == pc \in {"loop", "get", "yield"} /\ caller = "scan"

InitMain == InitState("start")

\* scraper.login() (line 293)
MainLogin ==
    /\ mpc = "start" /\ pc = "idle"
    /\ mpc' = "login"
    /\ pc' = "get" /\ caller' = "login"
    /\ GetCall(login_path)
    /\ UNCHANGED << profile, cache, cacheOpen, runs, prev >>
    /\ UNCHANGED scanVars
    /\ UNCHANGED << report, rpos, rcount, parseVars >>

\* A slip: the exception of login swallowed and the run carried on.
LoginOutcome_Swallowed(result) == "scan"

\* login raised: the exception leaves main; it returned: main goes on.
LoginOutcome(result) == IF result.kind = "raise" THEN "aborted" ELSE "scan"

\* login is over: main ends with its exception, or creates the generator and
\* prints the header (lines 293-297).
MainLoginEnd ==
    /\ mpc = "login" /\ pc = "get" /\ caller = "login" /\ gpc = "ret"
    /\ mpc' = LoginOutcome(gres)
    /\ report' = IF mpc' = "scan" THEN ReportHead(report, smin, smax) ELSE report
    /\ pc' = "idle" /\ caller' = "none"
    /\ GetDone
    /\ UNCHANGED << profile, cache, cacheOpen, runs, prev >>
    /\ UNCHANGED scanVars
    /\ UNCHANGED << rpos, rcount, parseVars >>

\* The body of the for loop (line 300) for the result just yielded.
MainPrint ==
    /\ mpc = "scan" /\ pc = "yield" /\ ~Printed
    /\ report' = PrintLine(report, GenreLine(out[Len(out)][1], out[Len(out)][2],
                                              out[Len(out)][3]))
    /\ UNCHANGED << profile, cache, cacheOpen, pc, caller, runs, prev, mpc >>
    /\ UNCHANGED scanVars
    /\ UNCHANGED getVars
    /\ UNCHANGED << rpos, rcount, parseVars >>

\* KeyboardInterrupt or SystemExit during the for loop (lines 299-303).  Raised
\* inside the generator it leaves the with block on its way to main; raised in
\* main it leaves the generator suspended at its yield.
MainInterrupt ==
    /\ mpc = "scan" /\ Scanning
    /\ mpc' = "interrupted"
    /\ IF pc = "yield"
       THEN UNCHANGED << pc, caller, cacheOpen, prev, getVars >>
       ELSE RunEnds("interrupted") /\ GetDone
    /\ UNCHANGED << profile, cache, runs, report >>
    /\ UNCHANGED scanVars
    /\ UNCHANGED << rpos, rcount, parseVars >>

\* The finally clause (lines 304-306), after the loop ended, an exception
\* came out of the generator, or the interrupt was caught.
MainFinally ==
    /\ (mpc = "scan" /\ pc = "idle" /\ runs = 1) \/ mpc = "interrupted"
    /\ report' = ReportFoot(report)
    /\ mpc' = "done"
    /\ UNCHANGED << profile, cache, cacheOpen, pc, caller, runs, prev >>
    /\ UNCHANGED scanVars
    /\ UNCHANGED getVars
    /\ UNCHANGED << rpos, rcount, parseVars >>

\* main returned with the generator suspended: the generator is finalised,
\* GeneratorExit is raised at its yield and leaves the with block.
GeneratorClose ==
    /\ mpc = "done" /\ pc = "yield"
    /\ RunEnds("closed")
    /\ UNCHANGED << profile, cache, runs >>
    /\ UNCHANGED scanVars
    /\ UNCHANGED getVars
    /\ UNCHANGED << toolVars, parseVars >>

NextMain ==
    \/ MainLogin
    \/ MainLoginEnd
    \/ GetInitial
    \/ LoginSubmit
    \/ ProfileGet
    \/ ScanStart
    \/ ScanEnd
    \/ ScanHit
    \/ ScanMiss
    \/ ScanSkip
    \/ ScanTitle
    \/ MainPrint
    \/ ScanResume
    \/ MainInterrupt
    \/ MainFinally
    \/ GeneratorClose

SpecMain == InitMain /\ [][NextMain]_vars

\* main runs on, and the generator it leaves behind is finalised.
FairMain == SpecMain /\ WF_vars(MainFinally) /\ WF_vars(GeneratorClose)

\* -------------------------------------------------------------- recover.py
\* \d on one chunk
IsDigit(c) == c \in {"0", "1", "2", "3", "4", "5", "6", "7", "8", "9"}

\* for line in from_file: the lines of the text, each with its line break.
RECURSIVE FileLines(_)
FileLines(text) ==
    IF text = <<>> THEN <<>>
    ELSE IF \A i \in 1..Len(text) : text[i] # NL THEN <<text>>
    ELSE LET b == CHOOSE i \in 1..Len(text) :
                      text[i] = NL /\ \A j \in 1..(i - 1) : text[j] # NL
         IN  <<SubSeq(text, 1, b)>> \o FileLines(SubSeq(text, b + 1, Len(text)))

\* The text has the literal tok at i.
TokenAt(line, i, tok) ==
    /\ i >= 1 /\ i + Len(tok) - 1 <= Len(line)
    /\ SubSeq(line, i, i + Len(tok) - 1) = tok

\* "." matches every chunk of line[i..j]: none is a line break.
Dots(line, i, j) == \A m \in i..j : line[m] # NL

\* \d* from i: the index after the longest run of digits.
RECURSIVE DigitsEnd(_, _)
DigitsEnd(line, i) ==
    IF i <= Len(line) /\ IsDigit(line[i]) THEN DigitsEnd(line, i + 1) ELSE i

\* Where ".*\)\)" can end from i: the indices q of a "))" after dots.
UrlEnds(line, i) ==
    { q \in i..Len(line) : TokenAt(line, q, <<")", ")">>) /\ Dots(line, i, q - 1) }

\* Where " \(\[#(\d*)\]\((.*)\)\)" matches after "\* (.*)": the indices p
\* of a " ([#" followed by digits, "](", dots and "))".
TitleEnds(line) ==
    { p \in 3..Len(line) :
        /\ Dots(line, 3, p - 1)
        /\ TokenAt(line, p, <<SP, "(", "[", "#">>)
        /\ TokenAt(line, DigitsEnd(line, p + 4), <<"]", "(">>)
        /\ UrlEnds(line, DigitsEnd(line, p + 4) + 2) # {} }

Largest(S) == CHOOSE x \in S : \A y \in S : y <= x

NoMatch == [ok |-> FALSE, title |-> <<>>, number |-> <<>>, url |-> <<>>]

\* GENRE_REGEX.match(line) and its groups 1, 2, 3 (line 15): the match starts
\* at the start of the line and need not reach its end; the groups (.*) are
\* greedy.
GenreMatch(line) ==
    IF ~TokenAt(line, 1, <<"*", SP>>) \/ TitleEnds(line) = {} THEN NoMatch
    ELSE LET p == Largest(TitleEnds(line))
             d == DigitsEnd(line, p + 4)
             q == Largest(UrlEnds(line, d + 2))
         IN  [ok |-> TRUE, title |-> SubSeq(line, 3, p - 1),
              number |-> SubSeq(line, p + 4, d - 1), url |-> SubSeq(line, d + 2, q - 1)]

\* The titles and URLs of the results a report is printed from: a plain title,
\* an empty one, one that looks like the tail of a report line, one with a
\* line break; the genre page's URL as it is or with a query.
Titles ==
    { <<"Action">>, <<>>,
      <<"A", SP, "(", "[", "#", "7", "]", "(", "x", ")", ")">>,
      <<"Sci", NL, "Fi">> }
Urls(n) == { GenrePath(n), GenrePath(n) \o <<"?", "q", "=", ")", ")">> }

\* What genre_scan can yield for the numbers from n on: (number, title, url)
\* with increasing numbers.
RECURSIVE Yields(_)
Yields(n) ==
    IF n > MaxGenre THEN { <<>> }
    ELSE Yields(n + 1)
         \cup { <<r>> \o rest : r \in { <<n, t, u>> : t \in Titles, u \in Urls(n) },
                                 rest \in Yields(n + 1) }

\* recover.py is run on the output main printed for the results `out` of a
\* scan of [1, MaxGenre + 1).
InitRecover ==
    /\ profile = None
    /\ \E D \in SUBSET Keys : cache \in [D -> {None, OldEntry}]
    /\ cacheOpen = FALSE
    /\ pc = "idle"
    /\ caller = "none"
    /\ smin = 1 /\ smax = MaxGenre + 1
    /\ fresh = FALSE
    /\ number = 0
    /\ out \in Yields(1)
    /\ gpc = "idle" /\ gnext = NoRequest /\ greq = <<>> /\ gres = NoResult
    /\ glast = NoAnswer
    /\ runs = 0
    /\ prev = NoRun
    /\ fetched = <<>>
    /\ failed = FALSE
    /\ mpc = "recover"
    /\ report = ReportFoot(ReportLines(ReportHead(<<>>, smin, smax), out, 1))
    /\ rpos = 0 /\ rcount = 0
    /\ doc = <<>> /\ fst = FormReset /\ pst = ProfileReset /\ cst = CaptureReset

recoverFrame ==
    << profile, caller, runs, prev, mpc, report, scanVars, getVars, parseVars >>

\* count = 0; with shelve.open(...) as cache (lines 24-25)
RecoverOpen ==
    /\ mpc = "recover" /\ pc = "idle"
    /\ pc' = "lines"
    /\ cacheOpen' = TRUE
    /\ rcount' = 0 /\ rpos' = 0
    /\ UNCHANGED cache
    /\ UNCHANGED recoverFrame

\* The next line matches: its groups go into the cache (lines 26-34).
RecoverEntry ==
    /\ mpc = "recover" /\ pc = "lines" /\ rpos < Len(FileLines(report))
    /\ LET match == GenreMatch(FileLines(report)[rpos + 1])
       IN  /\ match.ok
           /\ cache' = CachePut(cache, match.number, <<match.title, match.url>>)
    /\ rcount' = rcount + 1
    /\ rpos' = rpos + 1
    /\ UNCHANGED << pc, cacheOpen >>
    /\ UNCHANGED recoverFrame

\* The next line does not match (line 28).
RecoverSkip ==
    /\ mpc = "recover" /\ pc = "lines" /\ rpos < Len(FileLines(report))
    /\ ~GenreMatch(FileLines(report)[rpos + 1]).ok
    /\ rpos' = rpos + 1
    /\ UNCHANGED << pc, cacheOpen, cache, rcount >>
    /\ UNCHANGED recoverFrame

\* The file is read: the shelf is closed and count returned (line 36).
RecoverReturn ==
    /\ mpc = "recover" /\ pc = "lines" /\ rpos = Len(FileLines(report))
    /\ pc' = "returned"
    /\ cacheOpen' = FALSE
    /\ UNCHANGED << cache, rpos, rcount >>
    /\ UNCHANGED recoverFrame

NextRecover ==
    \/ RecoverOpen
    \/ RecoverEntry
    \/ RecoverSkip
    \/ RecoverReturn

SpecRecover == InitRecover /\ [][NextRecover]_vars

\* ---------------------------------------------- the parsers, event by event
\* The events documents are made of, in three families: title markup, profile
\* links, forms.  A document is a stream of events of one family, balanced or
\* not.
TitleTag == Start("div", <<Class(<<"genreTitle">>)>>)
SpanTag == Start("span", <<>>)
CaptureEvents ==
    { TitleTag, SpanTag, End("div"), End("span"), Data(<<"A">>), Data(<<"B">>) }

LinkTag == Start("a", << Class(<<"profile-link">>), <<"href", <<SL, "p">>>> >>)
LinkTagNoHref == Start("a", << Class(<<"profile-link">>) >>)
BareClassTag == Start("a", << Class(None) >>)
ProfileEvents == { LinkTag, LinkTagNoHref, BareClassTag, End("a"), Data(<<"A">>) }

FormTagX == Start("form", << <<"id", <<"X">>>> >>)
FormTagNoId == Start("form", <<>>)
InputTag(v) == Start("input", << <<"name", <<"k">>>>, <<"value", v>> >>)
FormEvents == { FormTagX, FormTagNoId, InputTag(<<"v">>), InputTag(<<"w">>), End("form") }

Families == { CaptureEvents, ProfileEvents, FormEvents }
Events == UNION Families

\* The parsers are fed one document each, none of the Scraper runs.
InitParse ==
    /\ InitState("parse")
    /\ profile = None /\ cache = EmptyCache /\ smin = 1 /\ smax = 1

\* HTMLParser hands the next event of the document to the handler of each of
\* the three parsers; a parser whose handler raised is fed no more.
Feed(e) ==
    /\ \E F \in Families : e \in F /\ \A i \in 1..Len(doc) : doc[i] \in F
    /\ doc' = Append(doc, e)
    /\ fst' = FormFeed(fst, <<e>>)
    /\ pst' = ProfileFeed(pst, <<e>>)
    /\ cst' = CaptureFeed(cst, "genreTitle", <<e>>)
    /\ UNCHANGED << profile, cache, cacheOpen, pc, caller, runs, prev >>
    /\ UNCHANGED scanVars
    /\ UNCHANGED getVars
    /\ UNCHANGED toolVars

\* handle_starttag
FeedStart ==
    /\ mpc = "parse" /\ Len(doc) < MaxEvents
    /\ \E e \in { x \in Events : x.type = "start" } : Feed(e)

\* handle_endtag
FeedEnd ==
    /\ mpc = "parse" /\ Len(doc) < MaxEvents
    /\ \E e \in { x \in Events : x.type = "end" } : Feed(e)

\* handle_data
FeedData ==
    /\ mpc = "parse" /\ Len(doc) < MaxEvents
    /\ \E e \in { x \in Events : x.type = "data" } : Feed(e)

NextParse ==
    \/ FeedStart
    \/ FeedEnd
    \/ FeedData

SpecParse == InitParse /\ [][NextParse]_vars

\* ================================================================= claims
\* The loop stands at its head with the range exhausted: the run has yielded
\* all it will.
Exhausted == pc = "loop" /\ number >= smax

\* get has just handed its outcome to genre_scan.
Fetched == pc = "get" /\ caller = "scan" /\ gpc = "ret"

\* c is cache with `value` stored under `key` and nothing else changed.
PutOnly(c, key, value) ==
    /\ DOMAIN c = DOMAIN cache \cup {key}
    /\ c[key] = value
    /\ \A k \in DOMAIN cache \ {key} : c[k] = cache[k]

C3_FailureIsolated ==
    [][ (Fetched /\ gres.kind = "raise")
        => /\ out' = out /\ cache' = cache
           /\ number' = number + 1
           /\ pc' = "loop" /\ cacheOpen' /\ prev' = prev
      ]_vars

\* The fetch of genre 1 failed, nothing was cached for it, and the scan went
\* on to fetch and yield genre 2 and reached max.
C3_Witness ==
    /\ Exhausted /\ failed /\ smin = 1 /\ smax = 3
    /\ fetched = <<1, 2>>
    /\ Len(out) = 1 /\ out[1][1] = 2
    /\ StrOfInt(1) \notin DOMAIN cache

\* ---- C4
\* C4 as stated: after a successful fetch on a cache miss, a result is yielded
\* and a pair cached only when some capture is non-empty, and then it is
\* (N, first capture, final URL); with no capture the absent marker is stored
\* and nothing is yielded.
C4_NonEmptyCapture ==
    [][ (Fetched /\ gres.kind = "return")
        => LET strings == TitleParse(gres.response.text).strings
               url == gres.response.url
               key == StrOfInt(number)
               nonEmpty == \E i \in 1..Len(strings) : strings[i] # <<>>
           IN  /\ (out' # out) => nonEmpty
               /\ nonEmpty => /\ out' = Append(out, <<number, strings[1], url>>)
                              /\ PutOnly(cache', key, <<strings[1], url>>)
               /\ (strings = <<>>) => /\ out' = out
                                      /\ PutOnly(cache', key, None)
      ]_vars

\* C4 amended: after a successful fetch on a cache miss, when the title parser
\* ran to the end, a result is yielded and a pair cached exactly when there is
\* at least one capture, empty or not: (N, first capture, final URL); with no
\* capture the absent marker is stored and nothing is yielded.  When the title
\* parser raises, nothing is stored or yielded and the exception ends the scan.
C4_FirstCapture ==
    [][ (Fetched /\ gres.kind = "return")
        => LET parsed == TitleParse(gres.response.text)
               strings == parsed.strings
               url == gres.response.url
               key == StrOfInt(number)
           IN  IF parsed.raised # ""
               THEN /\ out' = out /\ cache' = cache
                    /\ pc' = "idle" /\ prev'.status = "raised"
               ELSE IF Len(strings) > 0
               THEN /\ out' = Append(out, <<number, strings[1], url>>)
                    /\ PutOnly(cache', key, <<strings[1], url>>)
               ELSE /\ out' = out
                    /\ PutOnly(cache', key, None)
      ]_vars

\* scan(1, 3, fresh=True): genre 1 has an empty title element, genre 2 none;
\* (1, "", url) was yielded and "2" holds the absent marker.
C4_Witness ==
    /\ Exhausted /\ fresh /\ smin = 1 /\ smax = 3
    /\ out = << <<1, <<>>, PageEmptyTitle.url>> >>
    /\ DOMAIN cache = {StrOfInt(1), StrOfInt(2)}
    /\ cache[StrOfInt(1)] = << <<>>, PageEmptyTitle.url >>
    /\ cache[StrOfInt(2)] = None

\* ---- C5
\* C5: the numbers yielded are strictly increasing and within [min, max); the
\* numbers are processed one after the other: the loop moves from N to N + 1
\* only, and only when no get is under way; a get and a cache write are for
\* the number the loop stands at.
C5_Order ==
    [][ /\ \A i \in 1..Len(out') : out'[i][1] >= smin' /\ out'[i][1] < smax'
        /\ \A i, j \in 1..Len(out') : i < j => out'[i][1] < out'[j][1]
        /\ \A i \in 1..Len(out') : out'[i][1] <= number'
        /\ (Scanning /\ number' # number)
           => number' = number + 1 /\ gpc' = "idle" /\ pc' = "loop"
        /\ (gpc' # "idle" /\ caller' = "scan")
           => /\ pc' = "get" /\ number' = number
              /\ (IF greq' = <<>> THEN gnext' ELSE greq'[1]).url
                 = <<SL, "browse", SL, "genre", SL>> \o StrOfInt(number)
        /\ (Scanning /\ cache' # cache)
           => /\ Fetched
              /\ DOMAIN cache' = DOMAIN cache \cup {StrOfInt(number)}
              /\ \A k \in DOMAIN cache \ {StrOfInt(number)} : cache'[k] = cache[k]
        /\ (Scanning /\ fetched' # fetched)
           => /\ fetched' = Append(fetched, number)
              /\ \A i \in 1..Len(fetched) : fetched[i] < number
        /\ (Scanning /\ out' # out)
           => \E r \in {out'[Len(out')]} : out' = Append(out, r) /\ r[1] = number
      ]_vars

\* A scan of [1, 3) ended having yielded 1 from the cache, then 2 after a fetch.
C5_Witness ==
    /\ Exhausted /\ smin = 1 /\ smax = 3
    /\ Len(out) = 2 /\ out[1][1] = 1 /\ out[2][1] = 2
    /\ fetched = <<2>>

\* ---- get: what the claims about it speak of
\* The URL's path ends with the login path, whatever the case.
LoginPage(url) == EndsWith(Lower(url), <<SL, "login">>)

\* The profile entries of a body, in document order.
Entries(response) == ProfileParse(response.text).profiles

\* The first entry whose name is the configured one whatever the case (any
\* entry when none is configured), or 0.
FirstMatch(entries, p) ==
    LET matching == { i \in 1..Len(entries) : p = None \/ Lower(entries[i][1]) = Lower(p) }
    IN  IF matching = {} THEN 0
        ELSE CHOOSE i \in matching : \A j \in matching : i <= j

\* get ended and the request answered last was not the profile GET: profile
\* resolution, if it ran, ran on that answer.
EndedBeforeProfileGet == gpc = "ret" /\ glast.stage \in {"GET", "POST"}

\* ---- C6
\* C6: whenever the answer to the login submission is still a login page,
\* login resolution fails with the authentication error (RuntimeError) whose
\* message is the second error-message capture of that page; this for every
\* such page.
C6_AuthenticationError ==
    (gpc = "ret" /\ glast.stage = "POST" /\ glast.ok /\ LoginPage(glast.response.url))
    => /\ gres.kind = "raise" /\ gres.exc = "RuntimeError"
       /\ LET strings == ErrorParse(glast.response.text).strings
          IN  Len(strings) >= 2 => gres.msg = strings[2]

\* ---- C7
\* C7: when the answer to the GET is a login page without a login form, no
\* further request is issued for login resolution and that response is handed
\* on: get gives its caller what profile resolution makes of it, which is the
\* response itself when it lists no profile.
C7_FormlessLoginPassedOn ==
    (gpc = "ret" /\ glast.stage = "GET" /\ glast.ok /\ LoginPage(glast.response.url)
       /\ LoginFormIndex(FormParse(glast.response.text), 1) = 0)
    => /\ Len(greq) = 1
       /\ Entries(glast.response) = <<>> => gres = Returned(glast.response)
       /\ gres.kind = "raise" => gres.exc = "ValueError"

\* ---- C8
\* C8: profile resolution on a response with profile entries selects the first
\* entry matching the configured name whatever the case (the very first when
\* no name is configured), issues exactly one GET, to that entry's link
\* resolved against the response URL, and returns that GET's response; on a
\* response without entries it issues no request and returns it unchanged.
C8_ProfileSelection ==
    /\ gpc = "PGET"
       => LET i == FirstMatch(Entries(glast.response), profile)
          IN  /\ i # 0
              /\ gnext = Request(<<"GET">>,
                                 urljoin(glast.response.url, Entries(glast.response)[i][2]),
                                 <<>>)
    /\ (gpc = "ret" /\ glast.stage = "PGET")
       => /\ Len(greq) \in {2, 3}
          /\ Len(greq) = 3 => greq[2].method # <<"GET">>
          /\ glast.ok => gres = Returned(glast.response)
          /\ ~glast.ok => gres.kind = "raise"
    /\ (EndedBeforeProfileGet /\ glast.ok /\ ~LoginPage(glast.response.url))
       => FirstMatch(Entries(glast.response), profile) = 0
    /\ (EndedBeforeProfileGet /\ gres.kind = "return")
       => Entries(gres.response) = <<>> /\ gres.response = glast.response

\* With the profile KIDS configured, the entry Kids (the second of three, and
\* before the entry kids) was selected through its relative link, and the
\* response of that GET returned.
C8_Witness ==
    /\ gpc = "ret" /\ glast.stage = "PGET" /\ profile = <<"KIDS">>
    /\ greq[Len(greq)] = Request(<<"GET">>, <<SL, "p", SL, "kids">>, <<>>)
    /\ gres.kind = "return" /\ gres.response = PageComedy

\* ---- C9
\* C9: with a profile name configured, profile resolution on a response whose
\* entries all have other names issues no request and fails with the
\* profile-not-found error (ValueError) naming the requested profile and
\* listing every available name.
C9_ProfileNotFound ==
    (EndedBeforeProfileGet /\ glast.ok /\ ~LoginPage(glast.response.url)
       /\ profile # None /\ Entries(glast.response) # <<>>
       /\ \A i \in 1..Len(Entries(glast.response)) :
             Lower(Entries(glast.response)[i][1]) # Lower(profile))
    => /\ gres.kind = "raise" /\ gres.exc = "ValueError"
       /\ gres.who = profile
       /\ gres.names = [i \in 1..Len(Entries(glast.response)) |-> Entries(glast.response)[i][1]]
       /\ Len(greq) = (IF glast.stage = "GET" THEN 1 ELSE 2)

\* KIDS was asked for on a page offering Adult and Guest.
C9_Witness ==
    /\ gpc = "ret" /\ gres.kind = "raise" /\ gres.exc = "ValueError"
    /\ gres.who = <<"KIDS">>
    /\ gres.names = << <<"Adult">>, <<"Guest">> >>
    /\ Len(greq) = 1

\* ---- C10
\* C10 as stated: whenever get returns, the response returned is not a login
\* page and its body has no profile entry.
C10_PostInterstitial ==
    (gpc = "ret" /\ gres.kind = "return")
    => ~LoginPage(gres.response.url) /\ Entries(gres.response) = <<>>

\* C10 amended: whenever get returns without having issued a profile GET, the
\* response returned is not a login page and its body has no profile entry;
\* the response of a profile GET is returned as it is, whatever it is.
C10_PostInterstitialUnlessProfileGet ==
    (gpc = "ret" /\ gres.kind = "return")
    => IF glast.stage = "PGET"
       THEN gres.response = glast.response
       ELSE ~LoginPage(gres.response.url) /\ Entries(gres.response) = <<>>

\* get returned a genre page after the login form was submitted, no profile
\* being asked for.
C10_Witness ==
    /\ gpc = "ret" /\ gres.kind = "return" /\ glast.stage = "POST"
    /\ Len(greq) = 2 /\ LoginPage(greq[2].url)
    /\ gres.response = PageComedy

\* ---- the parsers: what the claims about them speak of
\* Every close tag closes the tag opened last, and nothing is left open.
RECURSIVE Nested(_, _)
Nested(events, stack) ==
    IF events = <<>> THEN stack = <<>>
    ELSE LET e == Head(events)
         IN  CASE e.type = "start" -> Nested(Tail(events), <<e.tag>> \o stack)
               [] e.type = "end" -> /\ stack # <<>> /\ Head(stack) = e.tag
                                    /\ Nested(Tail(events), Tail(stack))
               [] OTHER -> Nested(Tail(events), stack)

WellNested(events) == Nested(events, <<>>)

\* The class attribute has the token genreTitle.
IsTitle(e) ==
    /\ e.type = "start"
    /\ \E i \in 1..Len(e.attrs) :
          /\ e.attrs[i][1] = "class" /\ e.attrs[i][2] # None
          /\ \E j \in 1..Len(e.attrs[i][2]) : e.attrs[i][2][j] = "genreTitle"

\* The close tag balancing the open tag at i: the first j after i with as
\* many close tags as open tags in events[i..j].
Balance(events, i, j) ==
    Cardinality({ k \in i..j : events[k].type = "start" })
    - Cardinality({ k \in i..j : events[k].type = "end" })

CloseOf(events, i) ==
    CHOOSE j \in (i + 1)..Len(events) :
        /\ Balance(events, i, j) = 0
        /\ \A k \in i..(j - 1) : Balance(events, i, k) > 0

\* The text of events[i..j], tags dropped.
RECURSIVE TextOf(_, _, _)
TextOf(events, i, j) ==
    IF i > j THEN <<>>
    ELSE (IF events[i].type = "data" THEN events[i].data ELSE <<>>)
         \o TextOf(events, i + 1, j)

\* One entry for each title tag outside every other title element, from i on.
RECURSIVE Regions(_, _)
Regions(events, i) ==
    IF i > Len(events) THEN <<>>
    ELSE IF IsTitle(events[i])
         THEN <<TextOf(events, i, CloseOf(events, i))>>
              \o Regions(events, CloseOf(events, i) + 1)
    ELSE Regions(events, i + 1)

\* ---- C11
\* C11: whatever events a document is made of, neither form extraction nor
\* profile-list extraction nor predicate capture raises.
C11_ParsersNeverRaise == pst.raised = "" /\ cst.raised = ""

\* ---- C12
\* C12: on a well-nested document predicate capture ends with one string for
\* each title tag opened outside every other title element, in document
\* order, each the text up to the balancing close tag.
C12_BalancedCapture ==
    WellNested(doc) => cst.raised = "" /\ cst.strings = Regions(doc, 1)

\* The same for the documents on which the predicate does not raise.
BalancedCaptureUnlessRaised ==
    (WellNested(doc) /\ cst.raised = "") => cst.strings = Regions(doc, 1)

\* <div class="genreTitle"><span>A</span>B</div> gave the single string "AB".
BalancedCaptureReached ==
    /\ doc = << TitleTag, SpanTag, Data(<<"A">>), End("span"), Data(<<"B">>), End("div") >>
    /\ cst.strings = << <<"A", "B">> >>

\* ---- C13
\* The open tag e has the attribute `name` with `value`.
HasAttr(e, name, value) ==
    \E i \in 1..Len(e.attrs) : e.attrs[i] = <<name, value>>

IsFormTag(e) == e.type = "start" /\ e.tag = "form"
IsFormEnd(e) == e.type = "end" /\ e.tag = "form"

\* The tags nest and no form is opened inside another.
WellFormed(events) ==
    /\ WellNested(SelectSeq(events, LAMBDA e : IsFormTag(e) \/ IsFormEnd(e)))
    /\ \A i, j \in 1..Len(events) :
          (i < j /\ IsFormTag(events[i]) /\ IsFormTag(events[j]))
          => \E m \in (i + 1)..(j - 1) : IsFormEnd(events[m])

\* The form opened at i is still open at j.
Encloses(events, i, j) ==
    /\ i < j /\ IsFormTag(events[i])
    /\ \A m \in (i + 1)..j : ~IsFormEnd(events[m]) /\ ~IsFormTag(events[m])

\* form_data has a form keyed by the id x whose fields send k to v.
FieldIs(form_data, x, k, v) ==
    \E f \in 1..Len(form_data) :
        /\ form_data[f].key = FormKeyId(x)
        /\ \E q \in 1..Len(form_data[f].fields) : form_data[f].fields[q] = <<k, v>>
        /\ \A q \in 1..Len(form_data[f].fields) :
              form_data[f].fields[q][1] = k => form_data[f].fields[q][2] = v

\* The ids, names and values the documents use.
Ids == { <<"X">> }
Names == { <<"k">> }
Values == { <<"v">>, <<"w">> }

\* C13 as stated: in a well-formed document, a form tag with id x enclosing a
\* tag named k with value v gives a form keyed x whose fields send k to v,
\* whatever else the document holds.
C13_FormField ==
    WellFormed(doc)
    => \A i, j \in 1..Len(doc) : \A x \in Ids, k \in Names, v \in Values :
          (/\ Encloses(doc, i, j)
           /\ HasAttr(doc[i], "id", x)
           /\ doc[j].type = "start" /\ HasAttr(doc[j], "name", k)
           /\ HasAttr(doc[j], "value", v))
          => FieldIs(fst.form_data, x, k, v)

\* C13 amended: the same, provided no later form tag has the id x and no later
\* tag of that form has the name k (a later form with the same id replaces
\* the entry, a later tag with the same name replaces the value).
C13_LastFormField ==
    WellFormed(doc)
    => \A i, j \in 1..Len(doc) : \A x \in Ids, k \in Names, v \in Values :
          (/\ Encloses(doc, i, j)
           /\ HasAttr(doc[i], "id", x)
           /\ doc[j].type = "start" /\ HasAttr(doc[j], "name", k)
           /\ HasAttr(doc[j], "value", v)
           /\ \A m \in (i + 1)..Len(doc) : ~HasAttr(doc[m], "id", x)
           /\ \A m \in (j + 1)..Len(doc) :
                 Encloses(doc, i, m) => ~HasAttr(doc[m], "name", k))
          => FieldIs(fst.form_data, x, k, v)

\* A form without id, then the form X with two tags named k: k is sent to the
\* value of the second.
C13_Witness ==
    /\ doc = << FormTagNoId, End("form"), FormTagX, InputTag(<<"w">>), InputTag(<<"v">>),
                End("form") >>
    /\ FieldIs(fst.form_data, <<"X">>, <<"k">>, <<"v">>)
    /\ Len(fst.form_data) = 2

\* ---- C15
\* The numbers from min up to n, in order.
UpTo(n) == [i \in 1..(n - smin + 1) |-> smin + i - 1]

\* C15: a fresh scan starts by emptying the cache as it opens it, and from
\* then on no entry leaves the cache or changes; every number the loop has
\* reached was fetched (all of [min, max) once the range is exhausted), and
\* every result yielded is the pair the scan itself stored for its number.
C15_FreshScan ==
    /\ [](Scanning /\ fresh
          => /\ fetched = UpTo(IF pc = "loop" THEN number - 1 ELSE number)
             /\ Exhausted => fetched = UpTo(smax - 1)
             /\ DOMAIN cache \subseteq { StrOfInt(fetched[i]) : i \in 1..Len(fetched) }
             /\ \A i \in 1..Len(out) :
                   /\ \E j \in 1..Len(fetched) : fetched[j] = out[i][1]
                   /\ StrOfInt(out[i][1]) \in DOMAIN cache
                   /\ cache[StrOfInt(out[i][1])] = <<out[i][2], out[i][3]>>)
    /\ [][ /\ (pc = "idle" /\ pc' = "loop" /\ fresh')
               => cache' = [k \in {} |-> None] /\ cacheOpen'
           /\ (Scanning /\ fresh)
               => \A k \in DOMAIN cache : k \in DOMAIN cache' /\ cache'[k] = cache[k]
         ]_vars

\* A fresh scan of [1, 3) after a scan that had cached a title for both
\* numbers: both were fetched again, and what the site answers now is what is
\* yielded and stored.
C15_Witness ==
    /\ Exhausted /\ fresh /\ runs = 2 /\ smin = 1 /\ smax = 3
    /\ prev.status = "done" /\ Len(prev.out) = 2
    /\ fetched = <<1, 2>>
    /\ Len(out) = 1 /\ out[1][1] = 2
    /\ DOMAIN cache = { StrOfInt(1), StrOfInt(2) } /\ cache[StrOfInt(1)] = None

\* ---- C18
\* C18: whenever the scan stores an entry for N, the body it parsed is the
\* answer to the GET of /browse/genre/N: the call of get issued that one
\* request; what a login submission or a profile GET answered never makes N
\* be stored as absent.
C18_GenrePageParsed ==
    [][ (Fetched /\ gres.kind = "return" /\ cache' # cache)
        => /\ Len(greq) = 1 /\ glast.stage = "GET"
           /\ greq[1].url = <<SL, "browse", SL, "genre", SL>> \o StrOfInt(number)
           /\ gres.response = glast.response
      ]_vars

Issued == greq \o (IF gpc \in {"GET", "POST", "PGET"} THEN <<gnext>> ELSE <<>>)

\* C20: a call of get issues at most three requests: first the GET of the
\* path; a login submission only as the second request and only after a login
\* page answered the first; a profile GET only as the last request and only
\* after a page listing profiles; after a request that failed, or a login
\* submission answered by a login page, the call ends raising, with no
\* further request.
C20_BoundedRequests ==
    /\ Len(Issued) <= 3
    /\ gpc # "idle" => Len(Issued) >= 1 /\ Issued[1].method = <<"GET">>
    /\ \A i \in 1..Len(Issued) : Issued[i].method # <<"GET">> => i = 2
    /\ Len(Issued) = 3 => Issued[2].method # <<"GET">>
    /\ gpc = "POST"
       => /\ Len(greq) = 1 /\ glast.stage = "GET" /\ glast.ok
          /\ LoginPage(glast.response.url)
    /\ gpc = "PGET"
       => /\ glast.ok /\ Entries(glast.response) # <<>>
          /\ ~LoginPage(glast.response.url)
          /\ gnext.method = <<"GET">>
    /\ (glast.stage # "none" /\ ~glast.ok) => gpc = "ret" /\ gres.kind = "raise"
    /\ (glast.stage = "POST" /\ glast.ok /\ LoginPage(glast.response.url))
       => gpc = "ret" /\ gres.kind = "raise"
    /\ glast.stage = "PGET" => gpc = "ret"

\* A call of get ended after three requests: the GET, the login submission
\* and the GET of a profile's link.
C20_Witness ==
    /\ gpc = "ret" /\ Len(greq) = 3 /\ gres.kind = "return"
    /\ greq[1].method = <<"GET">>
    /\ greq[2].method = <<"post">> /\ LoginPage(greq[2].url)
    /\ greq[3] = Request(<<"GET">>, <<SL, "p", SL, "adult">>, <<>>)

\* ---- C14
\* C14: the cache is opened once, when the scan starts, and is open while the
\* generator runs; once the generator has ended (exhausted, by an exception or
\* by an interrupt inside it) the cache is closed; when main stops iterating
\* with the generator suspended, the cache is closed eventually; closing
\* changes no entry, and nothing changes once it is closed.
C14_CacheReleased ==
    /\ [](Scanning => cacheOpen)
    /\ []((pc = "idle" /\ runs >= 1) => ~cacheOpen)
    /\ [][ /\ (cacheOpen' /\ ~cacheOpen) => (runs = 0 /\ runs' = 1 /\ pc' = "loop")
           /\ (cacheOpen /\ ~cacheOpen') => cache' = cache
           /\ (~cacheOpen /\ runs >= 1) => (cache' = cache /\ ~cacheOpen')
         ]_vars
    /\ (mpc \in {"interrupted", "done"}) ~> ~cacheOpen

\* main was interrupted while printing the first result of a fresh scan: the
\* generator was closed at its yield, and the entry written is in the cache.
C14_Witness ==
    /\ mpc = "done" /\ prev.status = "closed" /\ ~cacheOpen /\ fresh
    /\ Len(out) = 1
    /\ cache = [k \in {StrOfInt(out[1][1])} |-> <<out[1][2], out[1][3]>>]

\* ---- C16
\* C16: main calls login once, before anything else; until login has
\* returned nothing is printed, no scan is started, the cache is neither
\* opened nor changed and every request is for the login path or follows
\* from it; when login raises, main ends there: nothing is printed and
\* nothing happens afterwards.
C16_EagerLogin ==
    /\ [](mpc \in {"start", "login", "aborted"}
          => /\ report = <<>> /\ runs = 0 /\ ~cacheOpen /\ fetched = <<>>
             /\ gpc # "idle" => Issued[1].url = <<SL, "login">>)
    /\ [][ /\ (caller' = "login" /\ caller # "login") => mpc = "start"
           /\ (mpc \in {"start", "login", "aborted"}) => cache' = cache
           /\ (mpc' = "scan" /\ mpc # "scan")
              => mpc = "login" /\ gpc = "ret" /\ gres.kind = "return"
           /\ (mpc = "login" /\ gpc = "ret" /\ gres.kind = "raise")
              => mpc' = "aborted" /\ report' = <<>>
           /\ mpc # "aborted"
         ]_vars

\* main ended at a login that raised: nothing was printed, no scan started.
C16_Witness ==
    /\ mpc = "aborted" /\ report = <<>> /\ runs = 0 /\ pc = "idle" /\ gpc = "idle"

\* ---- C17
\* The line main prints for the i-th result, with its line break.
LineOf(i) == GenreLine(out[i][1], out[i][2], out[i][3]) \o <<NL>>

\* C17: recover_cache run on what main printed for the results: every entry
\* it stores is (title, url) under str(number) for the result whose line it
\* read, no other line makes it store anything; when it returns, the cache
\* holds (title, url) under str(number) for every result and the count is the
\* number of results.
C17_RoundTrip ==
    /\ [](pc = "returned"
          => /\ rcount = Len(out)
             /\ \A i \in 1..Len(out) :
                   /\ StrOfInt(out[i][1]) \in DOMAIN cache
                   /\ cache[StrOfInt(out[i][1])] = <<out[i][2], out[i][3]>>)
    /\ [][ (cache' # cache \/ rcount' # rcount)
           => \E i \in 1..Len(out) :
                 /\ FileLines(report)[rpos + 1] = LineOf(i)
                 /\ cache' = CachePut(cache, StrOfInt(out[i][1]), <<out[i][2], out[i][3]>>)
                 /\ rcount' = rcount + 1
         ]_vars

\* The same for the reports whose titles have no line break.
RoundTripOfOneLineTitles ==
    (\A i \in 1..Len(out) : \A j \in 1..Len(out[i][2]) : out[i][2][j] # NL)
    => /\ (pc = "returned"
           => /\ rcount = Len(out)
              /\ \A i \in 1..Len(out) :
                    /\ StrOfInt(out[i][1]) \in DOMAIN cache
                    /\ cache[StrOfInt(out[i][1])] = <<out[i][2], out[i][3]>>)
       /\ rcount <= Len(out)

====
